---------------------------- MODULE Spec2Model ----------------------------
(***************************************************************************)
(* Geometry-clipmap terrain renderer (SCom-Tree-for-2D).                   *)
(*                                                                         *)
(* The clipmap functions exist twice in the repository: once inside the    *)
(* monolithic src/src/graphicalInterface.cpp and once in the split-out     *)
(* src/src/clipmap.cpp.  Both define the same global symbols, so a build   *)
(* links exactly one of them; the variable `linked` records which.  The    *)
(* two copies differ only in updateClipmapLevels.                          *)
(*                                                                         *)
(* Numbers.  World coordinates are C++ `float` (IEEE-754 binary32).  The   *)
(* model writes a coordinate as an integer count of tenths of a world      *)
(* unit, so 14.9 is 149.  A coordinate that is not a whole number of world *)
(* units stands for the binary32 value nearest to it and is only used      *)
(* below 2^23 tenths, where that substitution cannot change any floor.     *)
(* Whole-number coordinates are used up to the magnitudes where binary32   *)
(* can no longer hold every integer; the rounding of each float operation  *)
(* of the source is modelled explicitly (F32Int, FloorF32Quot).            *)
(***************************************************************************)
EXTENDS Integers, Sequences, FiniteSets, TLC

(***************************************************************************)
(* Compile-time constants.                                                 *)
(***************************************************************************)
L == 8
N == 255
BLOCK_SIZE == 64

(***************************************************************************)
(* Bounds of the model.                                                    *)
(***************************************************************************)
\* Frames the main loop runs before the close signal must have arrived.
MaxFrames == 3
\* Calls a client of clipmap.h makes after initClipmapLevels (SpecApi).
MaxCalls == 3
\* createRenderBlock calls made by the client of the tile factory (SpecBlock).
MaxBuilds == 2
\* The largest sizeX and sizeZ that client passes.
MaxSize == 2

\* cameraPos.x candidates, in tenths.  16777226.0 and 16777236.0 are
\* binary32 values above 2^24; 21535654.0 is a binary32 value of the form
\* 5k-1 whose quotient by 5 rounds up to k.
ViewerX == {-50, -1, 0, 120, 149, 150, 6400, 167772260, 215356540}
\* cameraPos.z candidates, in tenths.  300.0 is the start position.
ViewerZ == {-1, 0, 70, 99, 3000}

LevelIndex == 0 .. (L - 1)

(***************************************************************************)
(* binary32 arithmetic on the values the program computes with.            *)
(***************************************************************************)
RECURSIVE Pow2(_)
Pow2(n) == IF n <= 0 THEN 1 ELSE 2 * Pow2(n - 1)

Abs(n) == IF n < 0 THEN -n ELSE n

\* n rounded to the nearest multiple of u, ties to the even multiple.
RoundHalfEven(n, u) ==
    LET lo == (n \div u) * u
        r  == n - lo
    IN  IF 2 * r < u THEN lo
        ELSE IF 2 * r > u THEN lo + u
        ELSE IF (lo \div u) % 2 = 0 THEN lo ELSE lo + u

\* The exponent e with 2^e * d <= a < 2^(e+1) * d, for a >= d > 0.
RECURSIVE Binade(_, _)
Binade(a, d) == IF a < 2 * d THEN 0 ELSE 1 + Binade(a, 2 * d)

\* The integer n converted to binary32 (24-bit significand, round to
\* nearest even): the conversion glm::vec2(gridCoords) and the rounding of
\* a product whose exact value is the integer n.
F32Int(n) ==
    IF Abs(n) < Pow2(24) THEN n
    ELSE RoundHalfEven(n, Pow2(Binade(Abs(n), Pow2(23))))

\* floor(viewer / gridSpacing) as the source computes it, for gridSpacing =
\* 5.0f * scale with scale a power of two: the binary32 quotient of the
\* coordinate p (tenths) by gridSpacing, rounded to nearest even, then floor,
\* then the conversion to int (exact below 2^31, which bounds every input
\* used here).  Dividing by a power of two is exact, so the quotient by 5 is
\* rounded and then scaled.
FloorF32Quot(p, scale) ==
    LET a == Abs(p)
        s == IF p < 0 THEN -1 ELSE 1
    IN  IF a = 0 THEN 0
        ELSE IF a >= 50
        THEN \* |p / 50| >= 1: binade e >= 0, ulp = 2^(e-23), significand m
             LET e == Binade(a, 50)
                 m == IF e <= 23
                      THEN RoundHalfEven(a * Pow2(23 - e), 50) \div 50
                      ELSE RoundHalfEven(a, 50 * Pow2(e - 23))
                               \div (50 * Pow2(e - 23))
             IN  IF e >= 23 THEN (s * m * Pow2(e - 23)) \div scale
                 ELSE (s * m) \div (Pow2(23 - e) * scale)
        ELSE \* 0 < |p / 50| < 1, so the quotient lies strictly inside (-1, 1)
             IF s < 0 THEN -1 ELSE 0

\* newWorldOffset = glm::vec2(gridCoords) * gridSpacing for one component, in
\* tenths: int -> float conversion, then the rounded float product.
SnapF32(gridCoord, scale) == 10 * F32Int(F32Int(gridCoord) * 5 * scale)

(***************************************************************************)
(* State.                                                                  *)
(***************************************************************************)
VARIABLES
    linked,         \* the translation unit that supplies the clipmap functions
    pc,             \* position of windowDisplay (Spec) or of the client (SpecApi)
    cameraPos,      \* <<cameraPos.x, cameraPos.z>>, in tenths
    shouldClose,    \* glfwWindowShouldClose(window)
    debugCounter,   \* the static frame counter of the main loop
    renderI,        \* the loop variable i of the render loop
    calls,          \* calls made by the client of clipmap.h (SpecApi)
    levels,         \* std::vector<ClipmapLevel> levels
    blocks,         \* std::vector<RenderBlock> blocks
    fixupStrips,    \* std::vector<RenderBlock> fixupStrips
    interiorTrims,  \* std::vector<RenderBlock> interiorTrims
    updateCounter,  \* the static int updateCounter of updateClipmapLevels
    lastViewer,     \* history: the viewer of the latest updateClipmapLevels call
    repeated,       \* history: that call had the same viewer as the one before
    log,            \* history: the calls windowDisplay has made, in order
    mesh,           \* the vertices and indices of the latest createRenderBlock
    gl              \* the OpenGL context: objects, bindings, uniforms, draws

vars == <<linked, pc, cameraPos, shouldClose, debugCounter, renderI, calls,
          levels, blocks, fixupStrips, interiorTrims, updateCounter, lastViewer, repeated,
          log, mesh, gl>>

Monolith == "graphicalInterface.cpp"
Modular == "clipmap.cpp"

terrainShaderProgram == "terrainShaderProgram"

(***************************************************************************)
(* The OpenGL context.  glGen* hands out names that were never used.       *)
(***************************************************************************)
GLInit ==
    [ nextVao |-> 1, nextBuf |-> 1, nextTex |-> 1,
      vaos |-> << >>,        \* vertex array name -> its buffer bindings
      bufs |-> << >>,        \* buffer name -> the data uploaded to it
      texs |-> {},           \* live texture names
      released |-> << >>,    \* every glDelete* call, in order
      program |-> "none",    \* glUseProgram
      boundVao |-> 0,        \* glBindVertexArray
      uniforms |-> << >>,    \* the uniforms last uploaded
      draws |-> << >> ]      \* glDrawElements calls of the last render call

\* f extended (or overwritten) at key k with value v.
Put(f, k, v) == [x \in (DOMAIN f) \cup {k} |-> IF x = k THEN v ELSE f[x]]

(***************************************************************************)
(* createRenderBlock                                                       *)
(***************************************************************************)
\* The loop with < where the source has <=.
IterationsExclusive(last) == IF last < 1 THEN 0 ELSE last

\* The iterations of for(int v = 0; v <= last; v++), in order.
Iterations(last) == IF last < 0 THEN 0 ELSE last + 1

\* The vertex loops: for z in 0..sizeZ, for x in 0..sizeX, push
\* (startX + x, startZ + z).  VertexCount is vertices.size() after the loops;
\* element k (1-based) is pushed in iteration z = (k-1) div w, x = (k-1) mod w,
\* where w is the number of iterations of the inner loop.
VertexCount(sizeX, sizeZ) == Iterations(sizeX) * Iterations(sizeZ)

VertexAt(startX, startZ, sizeX, k) ==
    LET w == Iterations(sizeX)
    IN  <<startX + ((k - 1) % w), startZ + ((k - 1) \div w)>>

Vertices(startX, startZ, sizeX, sizeZ) ==
    [k \in 1 .. VertexCount(sizeX, sizeZ) |-> VertexAt(startX, startZ, sizeX, k)]

\* The six indices pushed for the quad at (x, z).
QuadIndices(sizeX, z, x) ==
    LET tl == z * (sizeX + 1) + x
        tr == tl + 1
        bl == (z + 1) * (sizeX + 1) + x
        br == bl + 1
    IN  <<tl, bl, tr, tr, bl, br>>

\* The index loops: for z in 0..sizeZ-1, for x in 0..sizeX-1, push the six
\* indices of the quad.  IndexCount is indices.size() after the loops; quad q
\* (0-based) is iteration z = q div w, x = q mod w.
IndexCount(sizeX, sizeZ) == 6 * Iterations(sizeX - 1) * Iterations(sizeZ - 1)

IndexAt(sizeX, k) ==
    LET w == Iterations(sizeX - 1)
        q == (k - 1) \div 6
    IN  QuadIndices(sizeX, q \div w, q % w)[((k - 1) % 6) + 1]

Indices(sizeX, sizeZ) ==
    [k \in 1 .. IndexCount(sizeX, sizeZ) |-> IndexAt(sizeX, k)]

\* What the context keeps of an uploaded array: its length and its first and
\* last element (the vertex grid is row-major, so these are two opposite
\* corners of the tile).
UploadedVertices(startX, startZ, sizeX, sizeZ) ==
    LET n == VertexCount(sizeX, sizeZ)
    IN  [ size  |-> n,
          first |-> IF n = 0 THEN << >> ELSE VertexAt(startX, startZ, sizeX, 1),
          last  |-> IF n = 0 THEN << >> ELSE VertexAt(startX, startZ, sizeX, n) ]

UploadedIndices(sizeX, sizeZ) ==
    LET n == IndexCount(sizeX, sizeZ)
    IN  [ size  |-> n,
          first |-> IF n = 0 THEN << >> ELSE IndexAt(sizeX, 1),
          last  |-> IF n = 0 THEN << >> ELSE IndexAt(sizeX, n) ]

\* createRenderBlock(block, startX, startZ, sizeX, sizeZ) in context g:
\* the filled-in block and the context afterwards.
createRenderBlock(g, startX, startZ, sizeX, sizeZ) ==
    LET VAO == g.nextVao
        VBO == g.nextBuf
        EBO == g.nextBuf + 1
    IN  [ block |-> [ VAO |-> VAO, VBO |-> VBO, EBO |-> EBO,
                      indexCount |-> IndexCount(sizeX, sizeZ),
                      blockOffset |-> <<startX, startZ>> ],
          gl |-> [g EXCEPT
                    !.nextVao = VAO + 1,
                    !.nextBuf = EBO + 1,
                    !.vaos = Put(g.vaos, VAO, [vbo |-> VBO, ebo |-> EBO]),
                    !.bufs = Put(Put(g.bufs, VBO,
                                     UploadedVertices(startX, startZ, sizeX, sizeZ)),
                                 EBO, UploadedIndices(sizeX, sizeZ)),
                    !.boundVao = 0] ]

(***************************************************************************)
(* createGeometryBlocks                                                    *)
(***************************************************************************)
blockPositions ==
    LET m == BLOCK_SIZE
    IN  << <<0, 0>>, <<m, 0>>, <<2*m, 0>>, <<3*m, 0>>,
           <<0, m>>,                       <<3*m, m>>,
           <<0, 2*m>>,                     <<3*m, 2*m>>,
           <<0, 3*m>>, <<m, 3*m>>, <<2*m, 3*m>>, <<3*m, 3*m>> >>

fixupPositions ==
    LET m == BLOCK_SIZE
    IN  << <<m-1, 0>>, <<2*m, 0>>, <<m-1, 3*m>>, <<2*m, 3*m>> >>

trimPositions ==
    LET m == BLOCK_SIZE
    IN  << <<m, m>>, <<2*m-2, m>>, <<m, 2*m-2>>, <<2*m-2, 2*m-2>> >>

\* for(i = 0; i < Len(positions); i++) { createRenderBlock(...); push_back }
\* acc = [tiles, gl]: the collection and the context so far.
RECURSIVE BuildTiles(_, _, _, _, _)
BuildTiles(acc, positions, sizeX, sizeZ, i) ==
    IF i > Len(positions) THEN acc
    ELSE LET r == createRenderBlock(acc.gl, positions[i][1], positions[i][2],
                                    sizeX, sizeZ)
         IN  BuildTiles([tiles |-> Append(acc.tiles, r.block), gl |-> r.gl],
                        positions, sizeX, sizeZ, i + 1)

\* A collection that is not cleared keeps its records.
NoClear(tiles) == tiles

\* std::vector::clear(): the records go, their GL objects are not deleted.
Clear(tiles) == << >>

\* createGeometryBlocks() on the collections bl, fs, tr in context g.
createGeometryBlocks(g, bl, fs, tr) ==
    LET m == BLOCK_SIZE
        b == BuildTiles([tiles |-> Clear(bl), gl |-> g], blockPositions, m-1, m-1, 1)
        f == BuildTiles([tiles |-> Clear(fs), gl |-> b.gl], fixupPositions, 3, m-1, 1)
        t == BuildTiles([tiles |-> Clear(tr), gl |-> f.gl], trimPositions, m-2, m-2, 1)
    IN  [ blocks |-> b.tiles, fixupStrips |-> f.tiles, interiorTrims |-> t.tiles,
          gl |-> t.gl ]

(***************************************************************************)
(* createLevelTextures, initClipmapLevels                                  *)
(***************************************************************************)
\* A value-initialised ClipmapLevel, as std::vector::resize creates it.
ZeroLevel ==
    [ elevationTexture |-> 0, normalTexture |-> 0, textureOffset |-> <<0, 0>>,
      scale |-> 0, worldOffset |-> <<0, 0>>, active |-> FALSE, updateCount |-> 0 ]

\* levels.resize(n): keeps the first n elements, appends zeroed ones.
Resize(lv, n) == [k \in 1..n |-> IF k <= Len(lv) THEN lv[k] ELSE ZeroLevel]

\* createLevelTextures(level, levelIndex) in context g.
createLevelTextures(g, level) ==
    LET elev == g.nextTex
        norm == g.nextTex + 1
    IN  [ level |-> [level EXCEPT !.elevationTexture = elev,
                                  !.normalTexture = norm,
                                  !.textureOffset = <<0, 0>>],
          gl |-> [g EXCEPT !.nextTex = norm + 1,
                           !.texs = g.texs \cup {elev, norm}] ]

\* The loop body without the resets of worldOffset and updateCount.
InitLevelKeepsOffset(acc, i) ==
    LET level == [acc.levels[i + 1] EXCEPT !.scale = Pow2(i), !.active = TRUE]
        r == createLevelTextures(acc.gl, level)
    IN  [ levels |-> [acc.levels EXCEPT ![i + 1] = r.level], gl |-> r.gl ]

\* The loop body with a scale that grows by one per level.
InitLevelLinearScale(acc, i) ==
    LET level == [acc.levels[i + 1] EXCEPT
                     !.scale = i + 1,
                     !.worldOffset = <<0, 0>>,
                     !.active = TRUE,
                     !.updateCount = 0]
        r == createLevelTextures(acc.gl, level)
    IN  [ levels |-> [acc.levels EXCEPT ![i + 1] = r.level], gl |-> r.gl ]

\* The body of the loop of initClipmapLevels for level i (0-based).
\* acc = [levels, gl].
InitLevel(acc, i) ==
    LET level == [acc.levels[i + 1] EXCEPT
                     !.scale = Pow2(i),           \* pow(2.0f, i)
                     !.worldOffset = <<0, 0>>,
                     !.active = TRUE,
                     !.updateCount = 0]
        r == createLevelTextures(acc.gl, level)
    IN  [ levels |-> [acc.levels EXCEPT ![i + 1] = r.level], gl |-> r.gl ]

RECURSIVE InitLoop(_, _)
InitLoop(acc, i) == IF i >= L THEN acc ELSE InitLoop(InitLevel(acc, i), i + 1)

\* initClipmapLevels() on the level vector lv and the collections bl, fs, tr
\* in context g.
initClipmapLevels(lv, g, bl, fs, tr) ==
    LET geo == createGeometryBlocks(g, bl, fs, tr)
        r   == InitLoop([levels |-> Resize(lv, L), gl |-> geo.gl], 0)
    IN  [ levels |-> r.levels, blocks |-> geo.blocks,
          fixupStrips |-> geo.fixupStrips, interiorTrims |-> geo.interiorTrims,
          gl |-> r.gl ]

(***************************************************************************)
(* updateClipmapLevels                                                     *)
(***************************************************************************)
\* gridSpacing = 5.0f * level.scale, in tenths.
GridSpacing(level) == 50 * level.scale

\* Snapping to the nearest grid line instead of the one below.
NearestWorldOffset(level, viewerXZ) ==
    << SnapF32(FloorF32Quot(viewerXZ[1] + 25 * level.scale, level.scale), level.scale),
       SnapF32(FloorF32Quot(viewerXZ[2] + 25 * level.scale, level.scale), level.scale) >>

\* newWorldOffset of a level for the viewer position viewerXZ.
NewWorldOffset(level, viewerXZ) ==
    << SnapF32(FloorF32Quot(viewerXZ[1], level.scale), level.scale),
       SnapF32(FloorF32Quot(viewerXZ[2], level.scale), level.scale) >>

\* The loop body without its comparison: every call counts as a re-centring.
UpdateLevelAlwaysCounts(level, viewerXZ) ==
    [level EXCEPT !.worldOffset = NewWorldOffset(level, viewerXZ),
                  !.updateCount = level.updateCount + 1,
                  !.active = TRUE]

\* The loop body with the texture origin moved along with the offset.
UpdateLevelMovesTexture(level, viewerXZ) ==
    LET newWorldOffset == NewWorldOffset(level, viewerXZ)
    IN  IF level.worldOffset # newWorldOffset
        THEN [level EXCEPT !.worldOffset = newWorldOffset,
                           !.updateCount = level.updateCount + 1,
                           !.textureOffset =
                               << FloorF32Quot(viewerXZ[1], level.scale) % N,
                                  FloorF32Quot(viewerXZ[2], level.scale) % N >>,
                           !.active = TRUE]
        ELSE [level EXCEPT !.active = TRUE]

\* The loop body with levels that did not move culled.
UpdateLevelCulls(level, viewerXZ) ==
    LET newWorldOffset == NewWorldOffset(level, viewerXZ)
    IN  IF level.worldOffset # newWorldOffset
        THEN [level EXCEPT !.worldOffset = newWorldOffset,
                           !.updateCount = level.updateCount + 1,
                           !.active = TRUE]
        ELSE [level EXCEPT !.active = FALSE]

\* One iteration of the loop in src/src/graphicalInterface.cpp.
UpdateLevelMonolith(level, viewerXZ) ==
    LET newWorldOffset == NewWorldOffset(level, viewerXZ)
    IN  IF level.worldOffset # newWorldOffset
        THEN [level EXCEPT !.worldOffset = newWorldOffset,
                           !.updateCount = level.updateCount + 1,
                           !.active = TRUE]
        ELSE [level EXCEPT !.active = TRUE]

\* One iteration of the loop in src/src/clipmap.cpp: the comparison and the
\* assignment are commented out.
UpdateLevelModular(level, viewerXZ) == [level EXCEPT !.active = TRUE]

UpdateLevel(unit, level, viewerXZ) ==
    IF unit = Monolith THEN UpdateLevelMonolith(level, viewerXZ)
    ELSE UpdateLevelModular(level, viewerXZ)

\* The loop body snapping a coarser level from the finer level's offset.
UpdateAtFromFiner(unit, lv, viewerXZ, i) ==
    [lv EXCEPT ![i] = UpdateLevel(unit, lv[i],
                                  IF i = 1 THEN viewerXZ ELSE lv[i - 1].worldOffset)]

\* The loop body on the vector: ClipmapLevel& level = levels[i]; ... (i is
\* the 1-based position).
UpdateAt(unit, lv, viewerXZ, i) ==
    [lv EXCEPT ![i] = UpdateLevel(unit, lv[i], viewerXZ)]

\* for(int i = 0; i < L; i++) over the level vector lv.
RECURSIVE UpdateLoop(_, _, _, _)
UpdateLoop(unit, lv, viewerXZ, i) ==
    IF i >= L THEN lv
    ELSE UpdateLoop(unit, UpdateAt(unit, lv, viewerXZ, i + 1), viewerXZ, i + 1)

updateClipmapLevels(unit, lv, viewerXZ) == UpdateLoop(unit, lv, viewerXZ, 0)

\* The levels whose offset one call changes: each bumps the static
\* updateCounter once.
ChangedLevels(lv, after) == {i \in 1..Len(lv) : lv[i].worldOffset # after[i].worldOffset}

(***************************************************************************)
(* renderClipmapLevel                                                      *)
(***************************************************************************)
\* glBindVertexArray + glDrawElements for every tile of a collection.
RECURSIVE DrawTiles(_, _, _)
DrawTiles(g, tiles, i) ==
    IF i > Len(tiles) THEN g
    ELSE DrawTiles([g EXCEPT !.boundVao = tiles[i].VAO,
                             !.draws = Append(g.draws,
                                 [vao |-> tiles[i].VAO,
                                  count |-> tiles[i].indexCount,
                                  program |-> g.program,
                                  uniforms |-> g.uniforms])],
                   tiles, i + 1)

\* The part after the guard with the scale uploaded without the base spacing
\* and the offset left at the origin.
DrawLevelRawUniforms(g, level, levelIndex, model, view, projection, bl, fs, tr) ==
    LET g1 == [g EXCEPT
                 !.program = terrainShaderProgram,
                 !.uniforms = [ model |-> model, view |-> view,
                                projection |-> projection,
                                levelScale |-> level.scale,
                                levelOffset |-> <<0, 0>>,
                                levelIndex |-> levelIndex ],
                 !.draws = << >>]
        g2 == DrawTiles(g1, bl, 1)
        g3 == DrawTiles(g2, fs, 1)
        g4 == DrawTiles(g3, tr, 1)
    IN  [g4 EXCEPT !.boundVao = 0]

\* The part after the guard without the final glBindVertexArray(0).
DrawLevelKeepsBinding(g, level, levelIndex, model, view, projection, bl, fs, tr) ==
    LET g1 == [g EXCEPT
                 !.program = terrainShaderProgram,
                 !.uniforms = [ model |-> model, view |-> view,
                                projection |-> projection,
                                levelScale |-> 5 * level.scale,
                                levelOffset |-> level.worldOffset,
                                levelIndex |-> levelIndex ],
                 !.draws = << >>]
        g2 == DrawTiles(g1, bl, 1)
        g3 == DrawTiles(g2, fs, 1)
    IN  DrawTiles(g3, tr, 1)

\* The part after the guard with the trims drawn before the strips.
DrawLevelTrimsFirst(g, level, levelIndex, model, view, projection, bl, fs, tr) ==
    LET g1 == [g EXCEPT
                 !.program = terrainShaderProgram,
                 !.uniforms = [ model |-> model, view |-> view,
                                projection |-> projection,
                                levelScale |-> 5 * level.scale,
                                levelOffset |-> level.worldOffset,
                                levelIndex |-> levelIndex ],
                 !.draws = << >>]
        g2 == DrawTiles(g1, bl, 1)
        g3 == DrawTiles(g2, tr, 1)
        g4 == DrawTiles(g3, fs, 1)
    IN  [g4 EXCEPT !.boundVao = 0]

\* The part of renderClipmapLevel after the guard, for the level record
\* `level` read from levels[levelIndex].
DrawLevel(g, level, levelIndex, model, view, projection, bl, fs, tr) ==
    LET g1 == [g EXCEPT
                 !.program = terrainShaderProgram,
                 !.uniforms = [ model |-> model, view |-> view,
                                projection |-> projection,
                                levelScale |-> 5 * level.scale,
                                levelOffset |-> level.worldOffset,
                                levelIndex |-> levelIndex ],
                 !.draws = << >>]
        g2 == DrawTiles(g1, bl, 1)
        g3 == DrawTiles(g2, fs, 1)
        g4 == DrawTiles(g3, tr, 1)
    IN  [g4 EXCEPT !.boundVao = 0]

\* The records a read of levels[levelIndex] outside the vector can yield.
GarbageLevels ==
    { [ZeroLevel EXCEPT !.active = a, !.scale = sc] : a \in BOOLEAN, sc \in {0, 1} }

\* The guard `levelIndex >= L || !levels[levelIndex].active`: levelIndex >= L
\* returns before levels is read; any other index reads levels[levelIndex],
\* which is outside the vector for a negative index or an unsized vector.
ReadsOutside(lv, levelIndex) ==
    levelIndex < L /\ (levelIndex < 0 \/ levelIndex >= Len(lv))

\* renderClipmapLevel in context g; `garbage` is what an outside read yields.
renderClipmapLevel(g, lv, levelIndex, model, view, projection, bl, fs, tr, garbage) ==
    IF levelIndex >= L THEN [g EXCEPT !.draws = << >>]
    ELSE LET level == IF ReadsOutside(lv, levelIndex) THEN garbage
                      ELSE lv[levelIndex + 1]
         IN  IF ~level.active THEN [g EXCEPT !.draws = << >>]
             ELSE DrawLevel(g, level, levelIndex, model, view, projection, bl, fs, tr)

(***************************************************************************)
(* The teardown at the end of windowDisplay                                *)
(***************************************************************************)
RECURSIVE DeleteTextures(_, _, _)
DeleteTextures(g, lv, i) ==
    IF i > Len(lv) THEN g
    ELSE DeleteTextures(
             [g EXCEPT !.texs = g.texs \ {lv[i].elevationTexture, lv[i].normalTexture},
                       !.released = g.released
                           \o << <<"texture", lv[i].elevationTexture>>,
                                 <<"texture", lv[i].normalTexture>> >>],
             lv, i + 1)

Without(f, ks) == [x \in (DOMAIN f) \ ks |-> f[x]]

RECURSIVE DeleteTiles(_, _, _)
DeleteTiles(g, tiles, i) ==
    IF i > Len(tiles) THEN g
    ELSE DeleteTiles(
             [g EXCEPT !.vaos = Without(g.vaos, {tiles[i].VAO}),
                       !.bufs = Without(g.bufs, {tiles[i].VBO, tiles[i].EBO}),
                       !.released = g.released
                           \o << <<"vertexArray", tiles[i].VAO>>,
                                 <<"buffer", tiles[i].VBO>>,
                                 <<"buffer", tiles[i].EBO>> >>],
             tiles, i + 1)

teardown(g, lv, bl, fs, tr) ==
    LET g1 == DeleteTextures(g, lv, 1)
        g2 == DeleteTiles(g1, bl, 1)
        g3 == DeleteTiles(g2, fs, 1)
        g4 == DeleteTiles(g3, tr, 1)
    IN  [g4 EXCEPT !.released = g4.released \o << <<"program", terrainShaderProgram>> >>,
                   !.program = "none"]

(***************************************************************************)
(* windowDisplay: the frame driver                                         *)
(***************************************************************************)
\* The viewer of the previous updateClipmapLevels call, before any call.
NoViewer == << >>

StartPos == <<0, 3000>>     \* cameraPos = (0, 500, 300)

\* No createRenderBlock call is being observed.
NoMesh == [args |-> << >>, vertices |-> << >>, indices |-> << >>]

\* An entry of the call history: the function called and its first argument
\* (-1 where there is none).
Call(name, arg) == [call |-> name, arg |-> arg]

\* The render loop starting one level too low.
SecondCoarsest == L - 2

\* for(int i = L - 1; ...): the first level rendered in a frame.
FirstRendered == L - 1

\* The release placed inside the loop body, after the last level is drawn.
LastLevelDrawn == pc = "swap"

\* The main loop has exited: the loop test found the close flag set.
LoopExited == pc = "loop" /\ shouldClose

Init ==
    /\ linked \in {Monolith, Modular}
    /\ pc = "start"
    /\ cameraPos = StartPos
    /\ shouldClose = FALSE
    /\ debugCounter = 0
    /\ renderI = 0
    /\ calls = 0
    /\ levels = << >>
    /\ blocks = << >>
    /\ fixupStrips = << >>
    /\ interiorTrims = << >>
    /\ updateCounter = 0
    /\ lastViewer = NoViewer
    /\ repeated = FALSE
    /\ log = << >>
    /\ mesh = NoMesh
    /\ gl = GLInit

\* glfwInit, window creation, gladLoadGL or shader compilation fails:
\* windowDisplay returns before initClipmapLevels.
StartupFails ==
    /\ pc = "start"
    /\ pc' = "returned"
    /\ UNCHANGED <<linked, cameraPos, shouldClose, debugCounter, renderI, calls,
                   levels, blocks, fixupStrips, interiorTrims, updateCounter,
                   lastViewer, repeated, gl>>
    /\ UNCHANGED <<log, mesh>>

\* Startup succeeds: initClipmapLevels().
InitClipmapLevels ==
    /\ pc = "start"
    /\ LET r == initClipmapLevels(levels, gl, blocks, fixupStrips, interiorTrims)
       IN  /\ levels' = r.levels
           /\ blocks' = r.blocks
           /\ fixupStrips' = r.fixupStrips
           /\ interiorTrims' = r.interiorTrims
           /\ gl' = r.gl
    /\ pc' = "loop"
    /\ UNCHANGED <<linked, cameraPos, shouldClose, debugCounter, renderI, calls,
                   updateCounter, lastViewer, repeated>>
    /\ log' = Append(log, Call("initClipmapLevels", -1))
    /\ UNCHANGED mesh

\* while(!glfwWindowShouldClose(window)) { processInput(window); glClear(...)
\* The keys held move the camera to any position of the candidate set.
ProcessInput ==
    /\ pc = "loop"
    /\ ~shouldClose
    /\ \E x \in ViewerX, z \in ViewerZ : cameraPos' = <<x, z>>
    /\ pc' = "update"
    /\ UNCHANGED <<linked, shouldClose, debugCounter, renderI, calls, levels,
                   blocks, fixupStrips, interiorTrims, updateCounter, lastViewer, repeated, gl>>
    /\ log' = Append(log, Call("processInput", -1))
    /\ UNCHANGED mesh

\* updateClipmapLevels(); debugCounter++; the matrices; i = L - 1.
UpdateClipmapLevels ==
    /\ pc = "update"
    /\ levels' = updateClipmapLevels(linked, levels, cameraPos)
    /\ updateCounter' = updateCounter + Cardinality(ChangedLevels(levels, levels'))
    /\ lastViewer' = cameraPos
    /\ repeated' = (lastViewer = cameraPos)
    /\ debugCounter' = debugCounter + 1
    /\ renderI' = FirstRendered
    /\ pc' = "render"
    /\ UNCHANGED <<linked, cameraPos, shouldClose, calls, blocks, fixupStrips,
                   interiorTrims, gl>>
    /\ log' = Append(log, Call("updateClipmapLevels", -1))
    /\ UNCHANGED mesh

\* renderClipmapLevel(i, model, view, projection); i--.
RenderClipmapLevel ==
    /\ pc = "render"
    /\ gl' = renderClipmapLevel(gl, levels, renderI, "model", <<"view", cameraPos>>,
                                "projection", blocks, fixupStrips, interiorTrims,
                                ZeroLevel)
    /\ renderI' = renderI - 1
    /\ pc' = IF renderI = 0 THEN "swap" ELSE "render"
    /\ UNCHANGED <<linked, cameraPos, shouldClose, debugCounter, calls, levels,
                   blocks, fixupStrips, interiorTrims, updateCounter, lastViewer, repeated>>
    /\ log' = Append(log, Call("renderClipmapLevel", renderI))
    /\ UNCHANGED mesh

\* glfwSwapBuffers(window); glfwPollEvents(): ESC may set the close flag.
\* The close signal arrives after MaxFrames frames at the latest.
SwapAndPoll ==
    /\ pc = "swap"
    /\ shouldClose' \in (IF debugCounter >= MaxFrames THEN {TRUE} ELSE BOOLEAN)
    /\ pc' = "loop"
    /\ UNCHANGED <<linked, cameraPos, debugCounter, renderI, calls, levels, blocks,
                   fixupStrips, interiorTrims, updateCounter, lastViewer, repeated, gl>>
    /\ log' = Append(log, Call("glfwSwapBuffers", -1))
    /\ UNCHANGED mesh

\* The loop has exited: the resources are released.
Teardown ==
    /\ LoopExited
    /\ gl' = teardown(gl, levels, blocks, fixupStrips, interiorTrims)
    /\ pc' = "done"
    /\ UNCHANGED <<linked, cameraPos, shouldClose, debugCounter, renderI, calls,
                   levels, blocks, fixupStrips, interiorTrims, updateCounter,
                   lastViewer, repeated>>
    /\ log' = Append(log, Call("teardown", -1))
    /\ UNCHANGED mesh

Next ==
    \/ StartupFails
    \/ InitClipmapLevels
    \/ ProcessInput
    \/ UpdateClipmapLevels
    \/ RenderClipmapLevel
    \/ SwapAndPoll
    \/ Teardown

Spec == Init /\ [][Next]_vars

(***************************************************************************)
(* A client of clipmap.h: after initClipmapLevels it calls the public      *)
(* functions in any order and with any arguments.                          *)
(***************************************************************************)
\* Viewer positions the client recentres to, in tenths.
ApiViewers == { <<0, 0>>, <<120, 70>>, <<149, 99>>, <<150, 99>>, <<-1, 3000>> }

InitApi ==
    /\ linked \in {Monolith, Modular}
    /\ pc = "client"
    /\ cameraPos = StartPos
    /\ shouldClose = FALSE
    /\ debugCounter = 0
    /\ renderI = 0
    /\ calls = 0
    /\ levels = << >>
    /\ blocks = << >>
    /\ fixupStrips = << >>
    /\ interiorTrims = << >>
    /\ updateCounter = 0
    /\ lastViewer = NoViewer
    /\ repeated = FALSE
    /\ log = << >>
    /\ mesh = NoMesh
    /\ gl = GLInit

Initialised == Len(levels) = L

ApiInitClipmapLevels ==
    /\ pc = "client"
    /\ calls < MaxCalls
    /\ LET r == initClipmapLevels(levels, gl, blocks, fixupStrips, interiorTrims)
       IN  /\ levels' = r.levels
           /\ blocks' = r.blocks
           /\ fixupStrips' = r.fixupStrips
           /\ interiorTrims' = r.interiorTrims
           /\ gl' = r.gl
    /\ calls' = calls + 1
    /\ UNCHANGED <<linked, pc, cameraPos, shouldClose, debugCounter, renderI,
                   updateCounter, lastViewer, repeated>>
    /\ UNCHANGED <<log, mesh>>

ApiCreateGeometryBlocks ==
    /\ pc = "client"
    /\ calls < MaxCalls
    /\ LET r == createGeometryBlocks(gl, blocks, fixupStrips, interiorTrims)
       IN  /\ blocks' = r.blocks
           /\ fixupStrips' = r.fixupStrips
           /\ interiorTrims' = r.interiorTrims
           /\ gl' = r.gl
    /\ calls' = calls + 1
    /\ UNCHANGED <<linked, pc, cameraPos, shouldClose, debugCounter, renderI,
                   levels, updateCounter, lastViewer, repeated>>
    /\ UNCHANGED <<log, mesh>>

\* The camera moves, then updateClipmapLevels().
ApiUpdateClipmapLevels ==
    /\ pc = "client"
    /\ calls < MaxCalls
    /\ Initialised
    /\ \E v \in ApiViewers :
          /\ cameraPos' = v
          /\ levels' = updateClipmapLevels(linked, levels, v)
          /\ lastViewer' = v
          /\ repeated' = (lastViewer = v)
    /\ updateCounter' = updateCounter + Cardinality(ChangedLevels(levels, levels'))
    /\ calls' = calls + 1
    /\ UNCHANGED <<linked, pc, shouldClose, debugCounter, renderI, blocks,
                   fixupStrips, interiorTrims, gl>>
    /\ UNCHANGED <<log, mesh>>

\* renderClipmapLevel(levelIndex, ...) with any index; renderI records it.
ApiRenderClipmapLevel ==
    /\ pc = "client"
    /\ calls < MaxCalls
    /\ Initialised
    /\ \E levelIndex \in -1 .. L, garbage \in GarbageLevels :
          /\ gl' = renderClipmapLevel(gl, levels, levelIndex, "model",
                                      <<"view", cameraPos>>, "projection",
                                      blocks, fixupStrips, interiorTrims, garbage)
          /\ renderI' = levelIndex
    /\ calls' = calls + 1
    /\ UNCHANGED <<linked, pc, cameraPos, shouldClose, debugCounter, levels,
                   blocks, fixupStrips, interiorTrims, updateCounter, lastViewer, repeated>>
    /\ UNCHANGED <<log, mesh>>

NextApi ==
    \/ ApiInitClipmapLevels
    \/ ApiCreateGeometryBlocks
    \/ ApiUpdateClipmapLevels
    \/ ApiRenderClipmapLevel

SpecApi == InitApi /\ [][NextApi]_vars

(***************************************************************************)
(* A client of createRenderBlock: it builds tiles of any start and size.   *)
(***************************************************************************)
StartXs == {-1, 4}
StartZs == {0, 7}

InitBlock ==
    /\ linked \in {Monolith, Modular}
    /\ pc = "factory"
    /\ cameraPos = StartPos
    /\ shouldClose = FALSE
    /\ debugCounter = 0
    /\ renderI = 0
    /\ calls = 0
    /\ levels = << >>
    /\ blocks = << >>
    /\ fixupStrips = << >>
    /\ interiorTrims = << >>
    /\ updateCounter = 0
    /\ lastViewer = NoViewer
    /\ repeated = FALSE
    /\ log = << >>
    /\ mesh = NoMesh
    /\ gl = GLInit

\* RenderBlock block; createRenderBlock(block, startX, startZ, sizeX, sizeZ).
\* blocks holds the block filled in; mesh holds the two local vectors as they
\* are when they are uploaded.
CreateRenderBlock ==
    /\ pc = "factory"
    /\ calls < MaxBuilds
    /\ \E startX \in StartXs, startZ \in StartZs,
          sizeX \in 0..MaxSize, sizeZ \in 0..MaxSize :
          LET r == createRenderBlock(gl, startX, startZ, sizeX, sizeZ)
          IN  /\ blocks' = <<r.block>>
              /\ gl' = r.gl
              /\ mesh' = [ args |-> <<startX, startZ, sizeX, sizeZ>>,
                           vertices |-> Vertices(startX, startZ, sizeX, sizeZ),
                           indices |-> Indices(sizeX, sizeZ) ]
    /\ calls' = calls + 1
    /\ UNCHANGED <<linked, pc, cameraPos, shouldClose, debugCounter, renderI, levels,
                   fixupStrips, interiorTrims, updateCounter, lastViewer, repeated, log>>

NextBlock == CreateRenderBlock

SpecBlock == InitBlock /\ [][NextBlock]_vars

(***************************************************************************)
(* Properties of the re-centring step.                                     *)
(***************************************************************************)
\* gridSpacing_i = 5 * 2^i for the level with index i (0-based), in tenths.
SpacingOf(i) == 50 * Pow2(i)

\* The level-i grid cell of a coordinate, in exact arithmetic.
CellOf(p, i) == p \div SpacingOf(i)

\* floor(viewer / gridSpacing_i) * gridSpacing_i for both components, in the
\* float arithmetic of the source.
SnappedOffset(viewerXZ, i) ==
    << SnapF32(FloorF32Quot(viewerXZ[1], Pow2(i)), Pow2(i)),
       SnapF32(FloorF32Quot(viewerXZ[2], Pow2(i)), Pow2(i)) >>

OffsetChanged(i) == levels'[i].worldOffset # levels[i].worldOffset

LevelKept(i) ==
    /\ levels'[i].worldOffset = levels[i].worldOffset
    /\ levels'[i].updateCount = levels[i].updateCount

\* C1: one call of updateClipmapLevels computes, for every level i,
\* newOffset = floor(viewerXZ / gridSpacing_i) * gridSpacing_i with
\* gridSpacing_i = 5 * 2^i, and where newOffset differs from the stored
\* worldOffset it stores newOffset and increments updateCount.
C1_RecenterSnaps ==
    [][UpdateClipmapLevels =>
         \A i \in 1..L :
            LET newOffset == SnappedOffset(cameraPos, i - 1)
            IN  levels[i].worldOffset # newOffset =>
                  /\ levels'[i].worldOffset = newOffset
                  /\ levels'[i].updateCount = levels[i].updateCount + 1]_vars

\* C2: in every state after initialisation every level's worldOffset.x and
\* worldOffset.y are exact integer multiples of the level's gridSpacing.
C2_GridAligned ==
    \A i \in 1..Len(levels) :
        /\ levels[i].worldOffset[1] % SpacingOf(i - 1) = 0
        /\ levels[i].worldOffset[2] % SpacingOf(i - 1) = 0

\* C3: a recenter call with the same viewer position as the call before it
\* changes no level's worldOffset and increments no level's updateCount.
C3_SnapIdempotent ==
    [][(UpdateClipmapLevels /\ lastViewer = cameraPos) =>
         \A i \in 1..L : LevelKept(i)]_vars

\* C3 witness: a second call with the same viewer has run, after a first call
\* that moved the finest level.
C3_Witness ==
    /\ pc = "render"
    /\ repeated
    /\ levels[1].updateCount > 0

\* C4: grid spacing grows strictly with the level index; in a recenter call
\* in which a coarser level's worldOffset changes every finer level's changes
\* too; so a coarser level's updateCount never exceeds a finer level's.
C4_MonotonicSpacing ==
    [][UpdateClipmapLevels =>
         \A i \in 1..L : \A j \in (i + 1)..L :
            /\ GridSpacing(levels'[i]) < GridSpacing(levels'[j])
            /\ OffsetChanged(j) => OffsetChanged(i)
            /\ levels'[j].updateCount <= levels'[i].updateCount]_vars

\* C4 witness: the coarsest level has re-centred and the finest level has
\* re-centred more often.
C4_Witness ==
    /\ pc = "render"
    /\ levels[L].updateCount >= 1
    /\ levels[1].updateCount > levels[L].updateCount

\* C5: a recenter call changes level i's worldOffset, and increments its
\* updateCount by exactly 1, if and only if the viewer's level-i grid cell
\* differs from the cell of the stored offset; otherwise both fields are
\* unchanged.  In particular, with level 0 at (10.0, 5.0), a move to
\* (14.9, 9.9) changes nothing for level 0 and a move to (15.0, 9.9) sets level
\* 0 to (15.0, 5.0), counting once for level 0 and for no coarser level.
C5_ChangeIffCellDiffers ==
    [][UpdateClipmapLevels =>
         /\ \A i \in 1..L :
               IF \/ CellOf(cameraPos[1], i - 1) # CellOf(levels[i].worldOffset[1], i - 1)
                  \/ CellOf(cameraPos[2], i - 1) # CellOf(levels[i].worldOffset[2], i - 1)
               THEN /\ OffsetChanged(i)
                    /\ levels'[i].updateCount = levels[i].updateCount + 1
               ELSE LevelKept(i)
         /\ (levels[1].worldOffset = <<100, 50>> /\ cameraPos = <<149, 99>>)
               => LevelKept(1)
         /\ (levels[1].worldOffset = <<100, 50>> /\ cameraPos = <<150, 99>>
                /\ lastViewer \in {<<120, 70>>, <<149, 99>>})
               => /\ levels'[1].worldOffset = <<150, 50>>
                  /\ levels'[1].updateCount = levels[1].updateCount + 1
                  /\ \A j \in 2..L : LevelKept(j)]_vars

\* C6: after every recenter call each level's worldOffset is the grid line at
\* or below the viewer on each axis:
\* worldOffset <= viewer < worldOffset + gridSpacing.
C6_OffsetBelowViewer ==
    lastViewer # NoViewer =>
        \A i \in 1..L : \A axis \in {1, 2} :
            /\ levels[i].worldOffset[axis] <= lastViewer[axis]
            /\ lastViewer[axis] < levels[i].worldOffset[axis] + SpacingOf(i - 1)

(***************************************************************************)
(* Properties of the tile geometry.  A tile's footprint is read back from  *)
(* the vertex data it uploaded: the vertex grid runs from the first        *)
(* uploaded vertex to the last one, and the grid cell (x, z) is the unit   *)
(* quad between the vertices (x, z) and (x + 1, z + 1).                    *)
(***************************************************************************)
AllTiles == blocks \o fixupStrips \o interiorTrims

\* The tiles exist and their vertex buffers have not been deleted.
GeometryLive ==
    /\ Len(AllTiles) > 0
    /\ \A k \in 1..Len(AllTiles) : AllTiles[k].VBO \in DOMAIN gl.bufs

FirstVertex(t) == gl.bufs[t.VBO].first
LastVertex(t) == gl.bufs[t.VBO].last
SizeX(t) == LastVertex(t)[1] - FirstVertex(t)[1]
SizeZ(t) == LastVertex(t)[2] - FirstVertex(t)[2]

CoversCell(t, x, z) ==
    /\ FirstVertex(t)[1] <= x /\ x < LastVertex(t)[1]
    /\ FirstVertex(t)[2] <= z /\ z < LastVertex(t)[2]

CoversPoint(t, x, z) ==
    /\ FirstVertex(t)[1] <= x /\ x <= LastVertex(t)[1]
    /\ FirstVertex(t)[2] <= z /\ z <= LastVertex(t)[2]

Coverage(x, z) ==
    Cardinality({k \in 1..Len(AllTiles) : CoversCell(AllTiles[k], x, z)})

\* The central square [m, 3m] x [m, 3m], as grid cells.
InCentre(x, z) ==
    /\ BLOCK_SIZE <= x /\ x < 3 * BLOCK_SIZE
    /\ BLOCK_SIZE <= z /\ z < 3 * BLOCK_SIZE

\* C7: the footprints of the 12 blocks, 4 fix-up strips and 4 interior trims
\* cover the N x N grid of a level without overlaps (no cell is covered twice)
\* and without gaps (every cell outside the centre is covered once).
C7_TilingComplete ==
    GeometryLive =>
        \A x \in 0..(N - 1) : \A z \in 0..(N - 1) :
            /\ Coverage(x, z) <= 1
            /\ ~InCentre(x, z) => Coverage(x, z) = 1

\* C8: after any number of createGeometryBlocks calls the collections hold
\* exactly 12 blocks, 4 fix-up strips and 4 interior trims, and every tile
\* built with sizes (sizeX, sizeZ) has indexCount = 6 * sizeX * sizeZ.
C8_TileCountAndShape ==
    GeometryLive =>
        /\ Len(blocks) = 12
        /\ Len(fixupStrips) = 4
        /\ Len(interiorTrims) = 4
        /\ \A k \in 1..Len(AllTiles) :
              AllTiles[k].indexCount = 6 * SizeX(AllTiles[k]) * SizeZ(AllTiles[k])

\* C8 witness: createGeometryBlocks has run at least twice (40 vertex arrays
\* were generated) and the collections still hold one layout.
C8_Witness ==
    /\ GeometryLive
    /\ gl.nextVao > 40
    /\ Len(blocks) = 12

\* C9: the 12 ring blocks have size (m-1) x (m-1) and start at the positions
\* (i*m, j*m), i, j in 0..3, without the four centre positions; the 4 fix-up
\* strips have width 3 and start on the rows z = 0 and z = 3m; the 4 interior
\* trims have size (m-2) x (m-2) and each adjoins the empty centre: it lies in
\* the central square and leaves the centre point (2m, 2m) free.
C9_LayoutFromBlockSize ==
    GeometryLive =>
        LET m == BLOCK_SIZE
        IN  /\ BLOCK_SIZE * 4 = N + 1
            /\ Len(blocks) = 12
            /\ { blocks[k].blockOffset : k \in 1..Len(blocks) }
                   = { <<i * m, j * m>> : i, j \in 0..3 }
                       \ { <<i * m, j * m>> : i, j \in 1..2 }
            /\ \A k \in 1..Len(blocks) :
                  /\ FirstVertex(blocks[k]) = blocks[k].blockOffset
                  /\ SizeX(blocks[k]) = m - 1
                  /\ SizeZ(blocks[k]) = m - 1
            /\ Len(fixupStrips) = 4
            /\ \A k \in 1..Len(fixupStrips) :
                  /\ SizeX(fixupStrips[k]) = 3
                  /\ FirstVertex(fixupStrips[k])[2] \in {0, 3 * m}
            /\ Len(interiorTrims) = 4
            /\ \A k \in 1..Len(interiorTrims) :
                  /\ SizeX(interiorTrims[k]) = m - 2
                  /\ SizeZ(interiorTrims[k]) = m - 2
                  /\ FirstVertex(interiorTrims[k])[1] >= m
                  /\ FirstVertex(interiorTrims[k])[2] >= m
                  /\ LastVertex(interiorTrims[k])[1] <= 3 * m
                  /\ LastVertex(interiorTrims[k])[2] <= 3 * m
                  /\ ~CoversPoint(interiorTrims[k], 2 * m, 2 * m)

\* C10: no ring block and no fix-up strip covers a grid cell inside the
\* central square [m, 3m] x [m, 3m], and no tile of the 20 covers the grid
\* centre point (2m, 2m).
C10_EmptyCentre ==
    GeometryLive =>
        /\ \A k \in 1..(Len(blocks) + Len(fixupStrips)) :
              \A x \in BLOCK_SIZE..(3 * BLOCK_SIZE - 1) :
                 \A z \in BLOCK_SIZE..(3 * BLOCK_SIZE - 1) :
                    ~CoversCell(AllTiles[k], x, z)
        /\ \A k \in 1..Len(AllTiles) :
              ~CoversPoint(AllTiles[k], 2 * BLOCK_SIZE, 2 * BLOCK_SIZE)

(***************************************************************************)
(* Properties of createRenderBlock.                                        *)
(***************************************************************************)
\* C11: for sizes >= 0 createRenderBlock produces (sizeX+1)*(sizeZ+1)
\* vertices, one at each integer coordinate of
\* [startX..startX+sizeX] x [startZ..startZ+sizeZ] in row-major order, and for
\* each unit quad the index triples (top-left, bottom-left, top-right) and
\* (top-right, bottom-left, bottom-right); every index is a valid vertex
\* index, and block and upload are fixed by the four inputs.
C11_BlockMesh ==
    mesh.args # << >> =>
        LET startX == mesh.args[1]
            startZ == mesh.args[2]
            sizeX  == mesh.args[3]
            sizeZ  == mesh.args[4]
            v == mesh.vertices
            ix == mesh.indices
        IN  /\ Len(v) = (sizeX + 1) * (sizeZ + 1)
            /\ \A z \in 0..sizeZ : \A x \in 0..sizeX :
                  v[z * (sizeX + 1) + x + 1] = <<startX + x, startZ + z>>
            /\ Len(ix) = 6 * sizeX * sizeZ
            /\ \A k \in 1..Len(ix) : ix[k] \in 0..(Len(v) - 1)
            /\ \A z \in 0..(sizeZ - 1) : \A x \in 0..(sizeX - 1) :
                  LET q == 6 * (z * sizeX + x)
                      topLeft     == <<startX + x, startZ + z>>
                      topRight    == <<startX + x + 1, startZ + z>>
                      bottomLeft  == <<startX + x, startZ + z + 1>>
                      bottomRight == <<startX + x + 1, startZ + z + 1>>
                  IN  /\ <<v[ix[q + 1] + 1], v[ix[q + 2] + 1], v[ix[q + 3] + 1]>>
                            = <<topLeft, bottomLeft, topRight>>
                      /\ <<v[ix[q + 4] + 1], v[ix[q + 5] + 1], v[ix[q + 6] + 1]>>
                            = <<topRight, bottomLeft, bottomRight>>
            /\ blocks[1].indexCount = Len(ix)
            /\ blocks[1].blockOffset = <<startX, startZ>>
            /\ gl.bufs[blocks[1].VBO] = [size |-> Len(v), first |-> v[1], last |-> v[Len(v)]]
            /\ gl.bufs[blocks[1].EBO].size = Len(ix)

\* C11 witness: a second tile, 2 x 1 quads, has been built.
C11_Witness ==
    /\ calls = 2
    /\ mesh.args # << >>
    /\ mesh.args[3] = 2 /\ mesh.args[4] = 1
    /\ Len(mesh.indices) = 12

(***************************************************************************)
(* Properties of the level records.                                        *)
(***************************************************************************)
\* C12: immediately after initClipmapLevels there are exactly L level records
\* and every level i has scale = 2^i, worldOffset = (0,0), active = true,
\* updateCount = 0 and textureOffset = (0,0).
C12_InitValues ==
    [][ApiInitClipmapLevels =>
         /\ Len(levels') = L
         /\ \A i \in 1..L :
               /\ levels'[i].scale = 2^(i - 1)
               /\ levels'[i].worldOffset = <<0, 0>>
               /\ levels'[i].active = TRUE
               /\ levels'[i].updateCount = 0
               /\ levels'[i].textureOffset = <<0, 0>>]_vars

\* C12 witness: initClipmapLevels has run again after a recenter call that had
\* moved the finest level to (10.0, 5.0).
C12_Witness ==
    /\ pc = "client"
    /\ linked = Monolith
    /\ calls = 3
    /\ lastViewer = <<120, 70>>
    /\ Len(levels) = L
    /\ levels[1].worldOffset = <<0, 0>>
    /\ gl.nextTex > 2 * L + 1

\* C13: after initialisation level i's scale is 2^i, scale grows strictly with
\* the level index, and recenter and render calls leave it alone.
C13_ScaleFixed ==
    /\ \A i \in 1..Len(levels) : levels[i].scale = 2^(i - 1)
    /\ \A i \in 1..Len(levels) : \A j \in (i + 1)..Len(levels) :
          levels[i].scale < levels[j].scale

\* C13 witness: a recenter call has moved the finest level and a render call
\* has drawn a level since.
C13_Witness ==
    /\ pc = "client"
    /\ Len(levels) = L
    /\ levels[1].updateCount > 0
    /\ Len(gl.draws) = 20

(***************************************************************************)
(* Properties of renderClipmapLevel.                                       *)
(***************************************************************************)
\* The index passed does not name an active level record.
NotRenderable(lv, levelIndex) ==
    \/ levelIndex < 0
    \/ levelIndex >= L
    \/ ~lv[levelIndex + 1].active

\* C14: renderClipmapLevel(index, ...) is a no-op (no uniform is set, no
\* program is bound, no draw call is issued) whenever index is outside
\* 0 <= index < L, negative indices included, or levels[index].active is
\* false.
C14_RenderNoOp ==
    [][(ApiRenderClipmapLevel /\ NotRenderable(levels, renderI')) =>
         /\ gl'.draws = << >>
         /\ gl'.uniforms = gl.uniforms
         /\ gl'.program = gl.program
         /\ gl'.boundVao = gl.boundVao]_vars

\* The uniforms renderClipmapLevel is to upload for the level with index
\* levelIndex, from the records lv and the matrices passed.
ExpectedUniforms(lv, levelIndex, model, view, projection) ==
    [ model |-> model, view |-> view, projection |-> projection,
      levelScale |-> 5 * lv[levelIndex + 1].scale,
      levelOffset |-> lv[levelIndex + 1].worldOffset,
      levelIndex |-> levelIndex ]

\* C15: for a valid active level renderClipmapLevel uploads
\* levelScale = 5 * levels[index].scale, levelOffset = levels[index].worldOffset
\* as currently stored, levelIndex = index, and the model, view and projection
\* matrices it was given.
C15_Uniforms ==
    [][(RenderClipmapLevel /\ ~NotRenderable(levels, renderI)) =>
         gl'.uniforms = ExpectedUniforms(levels, renderI, "model",
                                         <<"view", cameraPos>>, "projection")]_vars

\* C15 witness: the finest level has been rendered after it was re-centred
\* away from the origin.
C15_Witness ==
    /\ pc = "swap"
    /\ gl.program = terrainShaderProgram
    /\ gl.uniforms.levelIndex = 0
    /\ gl.uniforms.levelScale = 5
    /\ gl.uniforms.levelOffset = <<150, 50>>

\* C16: for a valid active level renderClipmapLevel issues exactly one draw
\* call per tile, 20 in total, in the order: all blocks, then all fixupStrips,
\* then all interiorTrims; every draw happens with the level's uniforms set.
C16_DrawOrder ==
    [][(RenderClipmapLevel /\ ~NotRenderable(levels, renderI)) =>
         /\ Len(gl'.draws) = 20
         /\ Len(gl'.draws) = Len(blocks) + Len(fixupStrips) + Len(interiorTrims)
         /\ \A k \in 1..Len(gl'.draws) :
               /\ gl'.draws[k].vao = (blocks \o fixupStrips \o interiorTrims)[k].VAO
               /\ gl'.draws[k].count = (blocks \o fixupStrips \o interiorTrims)[k].indexCount
               /\ gl'.draws[k].program = terrainShaderProgram
               /\ gl'.draws[k].uniforms.levelIndex = renderI
               /\ gl'.draws[k].uniforms = gl'.uniforms]_vars

\* C16 witness: a frame has drawn its last level; the first draw used a block
\* and the last one the fourth interior trim.
C16_Witness ==
    /\ pc = "swap"
    /\ Len(gl.draws) = 20
    /\ gl.draws[1].vao = blocks[1].VAO
    /\ gl.draws[20].vao = interiorTrims[4].VAO
    /\ gl.draws[20].uniforms.levelIndex = 0

\* C17: when renderClipmapLevel returns after drawing, the bound vertex array
\* is the VAO of the last interior trim and the active program is the terrain
\* shader program.
C17_StateAfterRender ==
    [][(RenderClipmapLevel /\ ~NotRenderable(levels, renderI)) =>
         /\ gl'.boundVao = interiorTrims[Len(interiorTrims)].VAO
         /\ gl'.program = terrainShaderProgram]_vars

\* C17 as amended: when renderClipmapLevel returns after drawing, no vertex
\* array is bound (the binding is reset to 0 after the last draw) and the
\* active program is the terrain shader program.
C17_UnboundAfterRender ==
    [][(RenderClipmapLevel /\ ~NotRenderable(levels, renderI)) =>
         /\ gl'.boundVao = 0
         /\ gl'.program = terrainShaderProgram]_vars

\* C17 witness: a level has been drawn, trims included, and nothing is bound.
C17_Witness ==
    /\ pc = "render"
    /\ renderI < FirstRendered
    /\ Len(gl.draws) = 20
    /\ gl.draws[20].vao = interiorTrims[4].VAO
    /\ gl.boundVao = 0
    /\ gl.program = terrainShaderProgram

(***************************************************************************)
(* Properties of the frame driver.                                         *)
(***************************************************************************)
\* The calls of one frame: input, one recenter, the levels from the coarsest
\* to the finest, the buffer swap.
FrameCalls ==
    << Call("processInput", -1), Call("updateClipmapLevels", -1) >>
      \o [k \in 1..L |-> Call("renderClipmapLevel", L - k)]
      \o << Call("glfwSwapBuffers", -1) >>

\* C18: in every frame the driver calls updateClipmapLevels exactly once
\* before the first renderClipmapLevel call of the frame, then
\* renderClipmapLevel exactly once per level in the order L-1, ..., 0; frames
\* do not overlap, and the recenter of a frame has seen the frame's camera.
C18_FrameOrder ==
    /\ \A k \in 2..Len(log) :
          log[k].call # "teardown" =>
              log[k] = FrameCalls[((k - 2) % Len(FrameCalls)) + 1]
    /\ pc \in {"render", "swap"} => lastViewer = cameraPos

\* C18 witness: two whole frames have run.
C18_Witness ==
    /\ pc = "loop"
    /\ Len(log) = 1 + 2 * (L + 3)
    /\ log[Len(log) - 1] = Call("renderClipmapLevel", 0)

\* C19: initClipmapLevels is called exactly once and before any recenter or
\* render call; resources are released only after the render loop has exited,
\* and no updateClipmapLevels or renderClipmapLevel call follows a release.
C19_InitOnceTeardownLast ==
    /\ pc \notin {"start", "returned"} => Len(log) > 0
    /\ \A k \in 1..Len(log) :
          /\ (log[k].call = "initClipmapLevels") = (k = 1)
          /\ log[k].call = "teardown" =>
                /\ k = Len(log)
                /\ k > 1
                /\ log[k - 1].call = "glfwSwapBuffers"
    /\ Len(gl.released) > 0 =>
          /\ pc = "done"
          /\ log[Len(log)].call = "teardown"

\* C19 witness: the run has ended after at least one frame and the resources
\* are released.
C19_Witness ==
    /\ pc = "done"
    /\ Len(gl.released) > 0
    /\ Len(log) >= L + 5

\* How often glDelete* was called for the object `name` of kind `kind`.
Releases(released, kind, name) ==
    Cardinality({k \in 1..Len(released) :
                    released[k][1] = kind /\ released[k][2] = name})

\* Every texture, vertex array and buffer the context has handed out is
\* released exactly `n` times in `released`.
EachReleased(g, released, n) ==
    /\ \A t \in 1..(g.nextTex - 1) : Releases(released, "texture", t) = n
    /\ \A a \in 1..(g.nextVao - 1) : Releases(released, "vertexArray", a) = n
    /\ \A b \in 1..(g.nextBuf - 1) : Releases(released, "buffer", b) = n

Shape(tiles) ==
    [k \in 1..Len(tiles) |->
        [blockOffset |-> tiles[k].blockOffset, indexCount |-> tiles[k].indexCount]]

\* The GL names the records own.
OwnedTextures ==
    UNION { {levels[i].elevationTexture, levels[i].normalTexture} : i \in 1..Len(levels) }
OwnedVertexArrays == { AllTiles[k].VAO : k \in 1..Len(AllTiles) }
OwnedBuffers == UNION { {AllTiles[k].VBO, AllTiles[k].EBO} : k \in 1..Len(AllTiles) }

\* C21: calling initClipmapLevels (and so createGeometryBlocks) again yields
\* the registry of a single call (L levels, 12/4/4 tiles with the same
\* geometry) and leaves no buffer, vertex array or texture allocated without
\* an owning record.
C21_ReinitSideEffectFree ==
    Initialised =>
        LET once == initClipmapLevels(<< >>, GLInit, << >>, << >>, << >>)
        IN  /\ Len(levels) = Len(once.levels)
            /\ Shape(blocks) = Shape(once.blocks)
            /\ Shape(fixupStrips) = Shape(once.fixupStrips)
            /\ Shape(interiorTrims) = Shape(once.interiorTrims)
            /\ gl.texs \subseteq OwnedTextures
            /\ DOMAIN gl.vaos \subseteq OwnedVertexArrays
            /\ DOMAIN gl.bufs \subseteq OwnedBuffers

(***************************************************************************)
(* Properties of a frame as a whole.                                       *)
(***************************************************************************)
\* C22: in every frame the levelOffset uniform uploaded by renderClipmapLevel
\* for level i equals floor(viewer / gridSpacing_i) * gridSpacing_i computed
\* from the camera's XZ position of that frame.
C22_OffsetFlowsToRender ==
    [][RenderClipmapLevel =>
         gl'.uniforms.levelOffset = SnappedOffset(cameraPos, renderI)]_vars

\* The fields of a level the run is not to touch.
FixedFields(level) ==
    [ scale |-> level.scale, textureOffset |-> level.textureOffset,
      elevationTexture |-> level.elevationTexture,
      normalTexture |-> level.normalTexture ]

\* C23: during the run the only level fields that change are worldOffset,
\* active and updateCount: scale, textureOffset and both texture handles keep
\* their values, renderClipmapLevel changes no level field at all, and the
\* tile collections and their buffers are unchanged after the build.
C23_OnlyOffsetsMutate ==
    [][(UpdateClipmapLevels \/ RenderClipmapLevel) =>
         /\ Len(levels') = Len(levels)
         /\ \A i \in 1..Len(levels) : FixedFields(levels'[i]) = FixedFields(levels[i])
         /\ RenderClipmapLevel => levels' = levels
         /\ blocks' = blocks
         /\ fixupStrips' = fixupStrips
         /\ interiorTrims' = interiorTrims
         /\ gl'.bufs = gl.bufs
         /\ gl'.vaos = gl.vaos
         /\ gl'.texs = gl.texs]_vars

\* C23 witness: a frame has re-centred the finest level and drawn all levels;
\* the finest level still has its first texture handles and texture origin.
C23_Witness ==
    /\ pc = "swap"
    /\ levels[1].updateCount > 0
    /\ levels[1].worldOffset # <<0, 0>>
    /\ levels[1].textureOffset = <<0, 0>>
    /\ levels[1].elevationTexture = 1
    /\ Len(gl.draws) = 20

\* The loop of updateClipmapLevels run over the positions of `order`.
RECURSIVE UpdateInOrder(_, _, _, _, _)
UpdateInOrder(unit, lv, viewerXZ, order, k) ==
    IF k > Len(order) THEN lv
    ELSE UpdateInOrder(unit, UpdateAt(unit, lv, viewerXZ, order[k]), viewerXZ,
                       order, k + 1)

\* Coarsest first; and the even positions before the odd ones.
ReverseOrder == [k \in 1..L |-> L + 1 - k]
InterleavedOrder == [k \in 1..L |-> IF 2 * k <= L THEN 2 * k ELSE 2 * (k - L \div 2) - 1]

\* The vector with every record but the one at position i blanked.
OnlyLevel(lv, i) == [k \in 1..Len(lv) |-> IF k = i THEN lv[k] ELSE ZeroLevel]

\* C24: processing the L levels in another order for the same viewer gives
\* every level the worldOffset and updateCount of the index order; the updates
\* of two levels commute, and updating level i writes no other record and
\* does not depend on the contents of any other record.
C24_OrderIndependent ==
    [][ApiUpdateClipmapLevels =>
         /\ UpdateInOrder(linked, levels, cameraPos', ReverseOrder, 1) = levels'
         /\ UpdateInOrder(linked, levels, cameraPos', InterleavedOrder, 1) = levels'
         /\ \A i \in 1..L :
               LET alone == UpdateAt(linked, levels, cameraPos', i)
               IN  /\ alone = [levels EXCEPT ![i] = levels'[i]]
                   /\ UpdateAt(linked, OnlyLevel(levels, i), cameraPos', i)[i]
                        = levels'[i]
                   /\ \A j \in (i + 1)..L :
                         UpdateAt(linked, alone, cameraPos', j)
                           = UpdateAt(linked, UpdateAt(linked, levels, cameraPos', j),
                                      cameraPos', i)]_vars

\* C24 witness: one call has moved the finest and the coarsest level.
C24_Witness ==
    /\ pc = "client"
    /\ linked = Monolith
    /\ lastViewer = <<-1, 3000>>
    /\ levels[1].updateCount = 1
    /\ levels[L].updateCount = 1

\* C25: after initialisation every level's active flag is true, so every
\* renderClipmapLevel call of the frame loop draws.
C25_AlwaysActive ==
    /\ \A i \in 1..Len(levels) : levels[i].active
    /\ (pc \in {"render", "swap"} /\ renderI < FirstRendered) => Len(gl.draws) = 20

\* C25 witness: the second frame has drawn its last level.
C25_Witness ==
    /\ pc = "swap"
    /\ debugCounter = 2
    /\ gl.uniforms.levelIndex = 0
    /\ Len(gl.draws) = 20
    /\ \A i \in 1..L : levels[i].active

(***************************************************************************)
(* Properties of the level offsets across levels.                          *)
(***************************************************************************)
\* C26: after every recenter call the level offsets are nested: for adjacent
\* levels i and i+1 and each axis, worldOffset[i] - worldOffset[i+1] is either
\* 0 or gridSpacing_i.
C26_NestedOffsets ==
    lastViewer # NoViewer =>
        \A i \in 1..(L - 1) : \A axis \in {1, 2} :
            levels[i].worldOffset[axis] - levels[i + 1].worldOffset[axis]
                \in {0, SpacingOf(i - 1)}

=============================================================================
